---- MODULE Spec2Model ----
(***************************************************************************)
(* BlockManager of consensus/core (block_manager.rs): suspension and       *)
(* acceptance of verified blocks against DagState; and AuthorityService    *)
(* (authority_node.rs): the handlers of the send_block and fetch_blocks    *)
(* requests of the peers; the TransactionClient, the proposals of Core and  *)
(* CommitObserver, as far as the commit stream of one authority goes; and  *)
(* TrafficController of sui-core (traffic_controller/mod.rs).              *)
(***************************************************************************)
EXTENDS Integers, Sequences, FiniteSets, TLC

\* ---------------------------------------------------------------- bounds
NumAuthorities == 2
MaxRound == 3
MaxBatch == 2
MaxFail == 1
\* The longest list of refs a fetch request enumerates freely.
MaxFetch == 2
\* The clock runs from 0 to MaxTime (ms); the handlers that may sleep at a time.
MaxTime == 3
MaxSleeping == 1
\* The highest round of the blocks the peers send.
MaxSendRound == 2
\* Parameters::max_forward_time_drift (ms).
max_forward_time_drift == 2
\* The addresses that send requests.
NumIps == 2
\* PolicyConfig::channel_capacity, PolicyType::TestNConnIP(threshold) and
\* PolicyConfig::connection_blocklist_ttl_sec / proxy_blocklist_ttl_sec.
channel_capacity == 2
threshold == 2
connection_blocklist_ttl_sec == 1
proxy_blocklist_ttl_sec == 1
\* The highest count the policy keeps of one address.
MaxFrequency == 3
\* The transactions that can be submitted.
MaxTx == 2

\* ------------------------------------------------------- blocks and refs
\* A BlockRef is <<round, author>>; one block per (round, author).
Authorities == 1..NumAuthorities
Genesis == {<<0, a>> : a \in Authorities}
Blocks == {<<r, a>> : r \in 1..MaxRound, a \in Authorities}
Refs == Genesis \cup Blocks

round(b) == b[1]
author(b) == b[2]

\* Ord of BlockRef: (round, author).
RefLess(x, y) == round(x) < round(y) \/ (round(x) = round(y) /\ author(x) < author(y))

MinRef(S) == CHOOSE x \in S : \A y \in S : x = y \/ RefLess(x, y)

\* Iteration order of a BTreeSet<BlockRef> / of the keys of a BTreeMap<BlockRef, _>.
RECURSIVE SortedSeq(_)
SortedSeq(S) == IF S = {} THEN <<>> ELSE <<MinRef(S)>> \o SortedSeq(S \ {MinRef(S)})

SeqToSet(s) == {s[i] : i \in 1..Len(s)}

\* Vec<VerifiedBlock> inputs of try_accept_blocks, of 1..MaxBatch blocks, repeats allowed.
Batches == UNION { [1..n -> Blocks] : n \in 1..MaxBatch }

NoPanic == "none"

\* An empty BTreeMap.
EmptyMap == [x \in {} |-> {}]

MapRemove(m, k) == [x \in (DOMAIN m) \ {k} |-> m[x]]
MapPut(m, k, v) == [x \in (DOMAIN m) \cup {k} |-> IF x = k THEN v ELSE m[x]]

VARIABLES
    ancestors,               \* Block.ancestors of every block of the universe
    fail,                    \* the refs on which check_ancestors returns Err
    dag_state,               \* DagState: the refs of the stored blocks
    suspended_blocks,        \* BTreeMap<BlockRef, SuspendedBlock>: ref -> missing_ancestors
    missing_ancestors,       \* BTreeMap<BlockRef, BTreeSet<BlockRef>>
    missing_blocks,          \* BTreeSet<BlockRef>
    panic,                   \* the panic that ended the program, or NoPanic
    ret,                     \* what the last completed try_accept_blocks returned and did
    submitted,               \* history: the blocks passed to try_accept_blocks so far
    accepted_count,          \* history: how often each block was returned in `accepted` (capped)
    reported,                \* history: the refs returned in `newly_missing` by some call
    fetch,                   \* the running handle_fetch_blocks: its position and locals
    now,                     \* the clock, in ms
    tasks,                   \* the handle_send_block calls that sleep: peer, block, deadline
    send_ret,                \* what the last handle_send_block returned and did
    tally_channel,           \* TrafficController: the tallies sent and not yet received
    blocklists,              \* Blocklists: connection_ips and proxy_ips, ip -> expiration
    spam_policy,             \* the spam policy of the tally loop (TestNConnIP): frequencies
    check,                   \* the running TrafficController::check: its position and locals
    tally_ret,               \* what the last TrafficController::tally did
    block_txs,               \* the blocks proposed so far, with their transactions
    tx_queue,                \* the transactions submitted to each authority, not yet proposed
    tx_submitted,            \* history: the transactions submitted to a TransactionClient
    commit_observer,         \* CommitObserver: last index, last leader round, committed refs
    commit_consumer,         \* the committed sub-DAGs the commit consumer has received
    node                     \* AuthorityNode: its running components, the position of stop()

vars == <<ancestors, fail, dag_state, suspended_blocks, missing_ancestors, missing_blocks,
          panic, ret, submitted, accepted_count, reported, fetch, now, tasks, send_ret,
          tally_channel, blocklists, spam_policy, check, tally_ret,
          block_txs, tx_queue, tx_submitted, commit_observer, commit_consumer, node>>

\* The fields of BlockManager as one record.
Manager == [suspended_blocks |-> suspended_blocks,
            missing_ancestors |-> missing_ancestors,
            missing_blocks |-> missing_blocks]

\* The causal history of a block: the block and its non-genesis ancestors, transitively.
RECURSIVE Ancestry(_)
Ancestry(b) == {b} \cup UNION {Ancestry(a) : a \in ancestors[b] \cap Blocks}

\* ------------------------------------------------------------ DagState
contains_block(dag, ref) == ref \in dag

accept_blocks(dag, refs) == dag \cup refs

\* ------------------------------------------------------- BlockVerifier
\* TestBlockVerifier::check_ancestors: Err exactly on the refs of `fail`
\* (NoopBlockVerifier is fail = {}).
check_ancestors(b) == b \notin fail

\* ------------------------------------------------ try_accept_one_block
\* Faulty variant: the skip test forgets the blocks already stored in DagState.
AlreadyKnownSuspendedOnly(bm, dag, block) == block \in DOMAIN bm.suspended_blocks

\* "already received and suspended, or already processed and stored": skip.
AlreadyKnown(bm, dag, block) ==
    \/ block \in DOMAIN bm.suspended_blocks
    \/ contains_block(dag, block)

\* The ancestors of `block` that contains_blocks reports as not found.
NotFoundAncestors(dag, block) == {a \in ancestors[block] : ~contains_block(dag, a)}

\* Faulty variant: the ancestors not found are not indexed.
IndexMissingNone(ma, M, block) == ma

\* missing_ancestors.entry(ancestor).or_default().insert(block_ref), for every
\* ancestor of M.
IndexMissing(ma, M, block) ==
    [x \in (DOMAIN ma) \cup M |->
        IF x \in M
        THEN (IF x \in DOMAIN ma THEN ma[x] ELSE {}) \cup {block}
        ELSE ma[x]]

\* Faulty variant: every ancestor not found is reported missing, suspended or not.
ReportMissingAlways(bm, M) == bm.missing_blocks \cup M

\* An ancestor not found goes to missing_blocks unless it is suspended (its payload
\* is here already).
ReportMissing(bm, M) == bm.missing_blocks \cup {a \in M : a \notin DOMAIN bm.suspended_blocks}

\* Faulty variant: a received block stays in missing_blocks.
ForgetReceivedNot(mb, block) == mb

\* self.missing_blocks.remove(&block.reference())
ForgetReceived(mb, block) == mb \ {block}

\* [bm |-> the manager afterwards, some |-> whether Some(block) is returned]
try_accept_one_block(bm, dag, block) ==
    IF AlreadyKnown(bm, dag, block)
    THEN [bm |-> bm, some |-> FALSE]
    ELSE LET M == NotFoundAncestors(dag, block)
             after == [suspended_blocks |-> bm.suspended_blocks,
                       missing_ancestors |-> IndexMissing(bm.missing_ancestors, M, block),
                       missing_blocks |-> ForgetReceived(ReportMissing(bm, M), block)]
         IN  IF M # {}
             THEN [bm |-> [after EXCEPT !.suspended_blocks = MapPut(@, block, M)],
                   some |-> FALSE]
             ELSE [bm |-> after, some |-> TRUE]

\* -------------------------------------------------- try_unsuspend_block
\* Faulty variant: a block whose missing set has emptied is left in the suspension table.
ResolvedNever(missing) == FALSE

\* "if block.missing_ancestors.is_empty()": the block leaves the suspension table.
Resolved(missing) == missing = {}

\* [bm, some |-> whether Some(SuspendedBlock) is returned, panic]
try_unsuspend_block(bm, block_ref, accepted_dependency) ==
    IF block_ref \notin DOMAIN bm.suspended_blocks
    THEN [bm |-> bm, some |-> FALSE, panic |-> "Block should be in suspended map"]
    ELSE IF accepted_dependency \notin bm.suspended_blocks[block_ref]
    THEN [bm |-> bm, some |-> FALSE,
          panic |-> "Block reference should be present in missing dependencies"]
    ELSE LET left == bm.suspended_blocks[block_ref] \ {accepted_dependency}
         IN  IF Resolved(left)
             THEN [bm |-> [bm EXCEPT !.suspended_blocks = MapRemove(@, block_ref)],
                   some |-> TRUE, panic |-> NoPanic]
             ELSE [bm |-> [bm EXCEPT !.suspended_blocks = MapPut(@, block_ref, left)],
                   some |-> FALSE, panic |-> NoPanic]

\* ----------------------------------------- try_unsuspend_children_blocks
\* The for loop over block_refs_with_missing_deps (`refs`, in BTreeSet order) of the
\* popped block `dep`.
RECURSIVE UnsuspendChildrenOf(_, _, _)
UnsuspendChildrenOf(st, dep, refs) ==
    IF refs = <<>> \/ st.panic # NoPanic THEN st
    ELSE LET r == Head(refs)
             u == try_unsuspend_block(st.bm, r, dep)
         IN  UnsuspendChildrenOf(
                 [bm |-> u.bm,
                  panic |-> u.panic,
                  to_process_blocks |-> IF u.some THEN Append(st.to_process_blocks, r)
                                        ELSE st.to_process_blocks,
                  unsuspended_blocks |-> IF u.some THEN Append(st.unsuspended_blocks, r)
                                         ELSE st.unsuspended_blocks],
                 dep, Tail(refs))

\* Faulty variant: only the children of the accepted block are tried, the unsuspended
\* blocks are not queued for their own children.
UnsuspendLoopOnce(st) ==
    IF st.to_process_blocks = <<>> \/ st.panic # NoPanic THEN st
    ELSE LET n == Len(st.to_process_blocks)
             block == st.to_process_blocks[n]
             popped == [st EXCEPT !.to_process_blocks = SubSeq(@, 1, n - 1)]
         IN  IF block \in DOMAIN popped.bm.missing_ancestors
             THEN UnsuspendChildrenOf(
                      [popped EXCEPT !.bm.missing_ancestors = MapRemove(@, block)],
                      block, SortedSeq(popped.bm.missing_ancestors[block]))
             ELSE popped

\* while let Some(block) = to_process_blocks.pop()
RECURSIVE UnsuspendLoop(_)
UnsuspendLoop(st) ==
    IF st.to_process_blocks = <<>> \/ st.panic # NoPanic THEN st
    ELSE LET n == Len(st.to_process_blocks)
             block == st.to_process_blocks[n]
             popped == [st EXCEPT !.to_process_blocks = SubSeq(@, 1, n - 1)]
         IN  IF block \in DOMAIN popped.bm.missing_ancestors
             THEN UnsuspendLoop(UnsuspendChildrenOf(
                      [popped EXCEPT !.bm.missing_ancestors = MapRemove(@, block)],
                      block, SortedSeq(popped.bm.missing_ancestors[block])))
             ELSE UnsuspendLoop(popped)

\* [bm, unsuspended_blocks |-> the unsuspended blocks in the order found, panic, ..]
try_unsuspend_children_blocks(bm, accepted_block) ==
    UnsuspendLoop([bm |-> bm, panic |-> NoPanic,
                   to_process_blocks |-> <<accepted_block>>,
                   unsuspended_blocks |-> <<>>])

\* ------------------------- try_accept_blocks: the body of "for block in blocks"
\* The 'ancestor loop over b.ancestors() (`included`, in the order of the list):
\* "found" when every ancestor is in DagState or in blocks_to_accept, "rejected"
\* when the first one that is in neither is in blocks_to_reject, else the panic.
\* Faulty variant: an ancestor found nowhere is passed over instead of raising the panic.
RECURSIVE LookupAncestorsLenient(_, _, _, _)
LookupAncestorsLenient(dag, included, blocks_to_accept, blocks_to_reject) ==
    IF included = <<>> THEN "found"
    ELSE IF Head(included) \in blocks_to_reject
            /\ ~contains_block(dag, Head(included))
            /\ Head(included) \notin blocks_to_accept
    THEN "rejected"
    ELSE LookupAncestorsLenient(dag, Tail(included), blocks_to_accept, blocks_to_reject)

\* Faulty variant: a rejected ancestor does not reject the block.
RECURSIVE LookupAncestorsNoCascade(_, _, _, _)
LookupAncestorsNoCascade(dag, included, blocks_to_accept, blocks_to_reject) ==
    IF included = <<>> THEN "found"
    ELSE IF \/ contains_block(dag, Head(included))
            \/ Head(included) \in blocks_to_accept
            \/ Head(included) \in blocks_to_reject
    THEN LookupAncestorsNoCascade(dag, Tail(included), blocks_to_accept, blocks_to_reject)
    ELSE "panic"

RECURSIVE LookupAncestors(_, _, _, _)
LookupAncestors(dag, included, blocks_to_accept, blocks_to_reject) ==
    IF included = <<>> THEN "found"
    ELSE IF contains_block(dag, Head(included)) \/ Head(included) \in blocks_to_accept
    THEN LookupAncestors(dag, Tail(included), blocks_to_accept, blocks_to_reject)
    ELSE IF Head(included) \in blocks_to_reject THEN "rejected"
    ELSE "panic"

\* The 'block loop over iter::once(block).chain(unsuspended_blocks).
RECURSIVE VerifyLoop(_, _, _)
VerifyLoop(st, dag, bs) ==
    IF bs = <<>> \/ st.panic # NoPanic THEN st
    ELSE LET b == Head(bs)
             look == LookupAncestors(dag, SortedSeq(ancestors[b]),
                                     st.blocks_to_accept, st.blocks_to_reject)
         IN  IF look = "panic"
             THEN [st EXCEPT !.panic = "Unsuspended block has a missing ancestor"]
             ELSE IF look = "rejected"
             THEN VerifyLoop([st EXCEPT !.blocks_to_reject = @ \cup {b}], dag, Tail(bs))
             ELSE IF ~check_ancestors(b)
             THEN VerifyLoop([st EXCEPT !.blocks_to_reject = @ \cup {b},
                                        !.checked = Append(@, b)], dag, Tail(bs))
             ELSE VerifyLoop([st EXCEPT !.blocks_to_accept = @ \cup {b},
                                        !.checked = Append(@, b)], dag, Tail(bs))

Verify(dag, bs) ==
    VerifyLoop([blocks_to_accept |-> {}, blocks_to_reject |-> {},
                checked |-> <<>>, panic |-> NoPanic], dag, bs)

\* Faulty variant: the rejected blocks are written to DagState with the accepted ones.
SurvivingWithRejected(v) == v.blocks_to_accept \cup v.blocks_to_reject

\* The blocks written to DagState and appended to accepted_blocks.
Surviving(v) == v.blocks_to_accept

\* Faulty variant: the values are collected from the highest key down.
IntoValuesDescending(S) == [i \in 1..Cardinality(S) |-> SortedSeq(S)[Cardinality(S) + 1 - i]]

\* blocks_to_accept.into_values().collect(): the values of the BTreeMap, in key order.
IntoValues(S) == SortedSeq(S)

\* One iteration of "for block in blocks". st holds the manager, DagState, the local
\* accepted_blocks, the panic if one was raised, and what the verifier was asked
\* (checked) and which blocks were dropped (rejected) so far in the call.
ForBlock(st, block) ==
    LET one == try_accept_one_block(st.bm, st.dag, block)
        unsus == try_unsuspend_children_blocks(one.bm, block)
        v == Verify(st.dag, <<block>> \o unsus.unsuspended_blocks)
    IN  IF ~one.some THEN [st EXCEPT !.bm = one.bm]
        ELSE IF unsus.panic # NoPanic THEN [st EXCEPT !.bm = unsus.bm, !.panic = unsus.panic]
        ELSE IF v.panic # NoPanic THEN [st EXCEPT !.bm = unsus.bm, !.panic = v.panic]
        ELSE [bm |-> unsus.bm,
              dag |-> accept_blocks(st.dag, Surviving(v)),
              accepted_blocks |-> st.accepted_blocks \o IntoValues(Surviving(v)),
              writes |-> st.writes \o (IF Surviving(v) = {} THEN <<>> ELSE <<Surviving(v)>>),
              checked |-> st.checked \o v.checked,
              rejected |-> st.rejected \cup v.blocks_to_reject,
              panic |-> NoPanic]

RECURSIVE ForBlocks(_, _)
ForBlocks(st, bs) ==
    IF bs = <<>> \/ st.panic # NoPanic THEN st
    ELSE ForBlocks(ForBlock(st, Head(bs)), Tail(bs))

\* blocks.sort_by_key(|b| b.round()): a stable sort.
RECURSIVE InsertByRound(_, _)
InsertByRound(sorted, b) ==
    IF sorted = <<>> THEN <<b>>
    ELSE IF round(b) < round(Head(sorted)) THEN <<b>> \o sorted
    ELSE <<Head(sorted)>> \o InsertByRound(Tail(sorted), b)

RECURSIVE SortByRound(_)
SortByRound(bs) ==
    IF bs = <<>> THEN <<>>
    ELSE InsertByRound(SortByRound(SubSeq(bs, 1, Len(bs) - 1)), bs[Len(bs)])

\* Faulty variant: the whole of missing_blocks is returned.
NewlyMissingAll(after, before) == after

\* self.missing_blocks.difference(&missing_blocks_before)
NewlyMissing(after, before) == after \ before

\* The state of the call of try_accept_blocks(input) when its for loop has ended.
RunCall(bm, dag, input) ==
    ForBlocks([bm |-> bm, dag |-> dag, accepted_blocks |-> <<>>, writes |-> <<>>,
               checked |-> <<>>, rejected |-> {}, panic |-> NoPanic],
              SortByRound(input))

\* ------------------------------------------------------------- the DAGs
\* tests::dag: a fully connected DAG, every block names all the blocks of the round
\* before (round 1 names the genesis blocks).
FullDag ==
    [b \in Blocks |-> {<<round(b) - 1, a>> : a \in Authorities}]

\* A DAG with fewer edges: a block names its author's previous block, the previous
\* block of every lower author, and of every higher author the block two rounds back.
SparseDag ==
    [b \in Blocks |->
        IF round(b) = 1 THEN Genesis
        ELSE {<<round(b) - 1, a>> : a \in {x \in Authorities : x <= author(b)}}
             \cup {<<round(b) - 2, a>> : a \in {x \in Authorities : x > author(b)}}]

Dags == {FullDag, SparseDag}

Verifiers == {F \in SUBSET Blocks : Cardinality(F) <= MaxFail}

Count(s, x) == Cardinality({i \in 1..Len(s) : s[i] = x})

Capped(n) == IF n > 2 THEN 2 ELSE n

\* ------------------------------------- AuthorityService::handle_fetch_blocks
MAX_ALLOWED_FETCH_BLOCKS == 200

\* Option::None; Some(block) is the block itself.
None == <<>>

\* Committee::is_valid_index
is_valid_index(index) == index \in Authorities

\* DagState::get_blocks: Some(block) or None for every ref, in the order of the refs.
get_blocks(dag, refs) == [i \in 1..Len(refs) |-> IF refs[i] \in dag THEN refs[i] ELSE None]

\* .into_iter().flatten(): the blocks that are Some, in order.
Flatten(opts) == SelectSeq(opts, LAMBDA x : x # None)

Ok == [kind |-> "Ok"]

\* Faulty variant: only the first ref of the request is validated.
ValidateRefsFirst(block_refs) ==
    IF block_refs = <<>> THEN Ok
    ELSE IF ~is_valid_index(author(block_refs[1]))
    THEN [kind |-> "InvalidAuthorityIndex", index |-> author(block_refs[1]),
          max |-> NumAuthorities]
    ELSE IF round(block_refs[1]) = 0
    THEN [kind |-> "UnexpectedGenesisBlockRequested"]
    ELSE Ok

\* "Some quick validation of the requested block refs": the error of the first ref
\* that fails, the author before the round.
ValidateRefs(block_refs) ==
    LET failing == {i \in 1..Len(block_refs) :
                       \/ ~is_valid_index(author(block_refs[i]))
                       \/ round(block_refs[i]) = 0}
    IN  IF failing = {} THEN Ok
        ELSE LET block == block_refs[CHOOSE i \in failing : \A j \in failing : i <= j]
             IN  IF ~is_valid_index(author(block))
                 THEN [kind |-> "InvalidAuthorityIndex", index |-> author(block),
                       max |-> NumAuthorities]
                 ELSE [kind |-> "UnexpectedGenesisBlockRequested"]

\* Faulty variant: the limit is tested with >=.
TooManyFrom(n) == n >= MAX_ALLOWED_FETCH_BLOCKS

\* block_refs.len() > MAX_ALLOWED_FETCH_BLOCKS
TooMany(n) == n > MAX_ALLOWED_FETCH_BLOCKS

\* The checks made before DagState is read.
ValidateRequest(peer, block_refs) ==
    IF TooMany(Len(block_refs))
    THEN [kind |-> "TooManyFetchBlocksRequested", peer |-> peer]
    ELSE ValidateRefs(block_refs)

\* The ancestors of the blocks found, as a BTreeSet (a genesis block has none).
AllAncestors(blocks) ==
    UNION {IF b \in Blocks THEN ancestors[b] ELSE {} : b \in SeqToSet(Flatten(blocks))}

\* highest_accepted_rounds[block_ref.author] is out of bounds for an ancestor.
IndexOutOfBounds(all_ancestors, highest_accepted_rounds) ==
    \E a \in all_ancestors : author(a) > Len(highest_accepted_rounds)

\* Faulty variant: an ancestor at the round the peer has is served again.
ServeAncestorFrom(highest_accepted_rounds, block_ref) ==
    highest_accepted_rounds[author(block_ref)] <= round(block_ref)

\* "if an ancestor's round is higher than the one that the peer has"
ServeAncestor(highest_accepted_rounds, block_ref) ==
    highest_accepted_rounds[author(block_ref)] < round(block_ref)

\* The part of the handler after the first read of DagState: `blocks` is what
\* that read returned, `dag` is DagState at the second read.
FetchResult(dag, blocks, highest_accepted_rounds) ==
    LET all == AllAncestors(blocks)
    IN  IF IndexOutOfBounds(all, highest_accepted_rounds)
        THEN [kind |-> "panic"]
        ELSE LET all_ancestors ==
                     SortedSeq({a \in all : ServeAncestor(highest_accepted_rounds, a)})
                 additional_blocks ==
                     IF all_ancestors = <<>> THEN <<>> ELSE get_blocks(dag, all_ancestors)
             IN  [kind |-> "Ok", blocks |-> Flatten(blocks \o additional_blocks)]

Idle == [pc |-> "idle"]

\* -------------------------------------- AuthorityService::handle_send_block
\* The bytes a peer sends: bytes that do not deserialize, or a SignedBlock with
\* its timestamp and the verdict block_verifier.verify will give on it.
Malformed == [kind |-> "malformed"]

SignedBlocks(blocks, timestamps, verdicts) ==
    [kind : {"block"}, block : blocks, timestamp_ms : timestamps, verify_ok : verdicts]

\* Faulty variant: the sender is not compared with the author.
ProducedByAnyone(peer, signed_block) == TRUE

\* "Reject blocks not produced by the peer": peer == signed_block.author()
ProducedBy(peer, signed_block) == peer = author(signed_block.block)

\* verified_block.timestamp_ms().saturating_sub(timestamp_utc_ms())
ForwardTimeDrift(timestamp_ms, clock) ==
    IF timestamp_ms > clock THEN timestamp_ms - clock ELSE 0

\* Faulty variant: a drift of exactly max_forward_time_drift is rejected as well.
TooFarInFutureFrom(forward_time_drift) == forward_time_drift >= max_forward_time_drift

\* forward_time_drift > self.context.parameters.max_forward_time_drift
TooFarInFuture(forward_time_drift) == forward_time_drift > max_forward_time_drift

\* Faulty variant: the handler sleeps one ms less than the drift.
DeadlineShort(clock, forward_time_drift) == clock + forward_time_drift - 1

\* sleep(forward_time_drift): the time from which the handler may run again.
Deadline(clock, forward_time_drift) == clock + forward_time_drift

\* Faulty variant: the verdict of block_verifier.verify is not looked at.
CheckSendBlockUnverified(peer, serialized_block, clock) ==
    IF serialized_block.kind = "malformed" THEN [kind |-> "MalformedBlock"]
    ELSE IF ~ProducedBy(peer, serialized_block)
    THEN [kind |-> "UnexpectedAuthority", author |-> author(serialized_block.block),
          peer |-> peer]
    ELSE IF TooFarInFuture(ForwardTimeDrift(serialized_block.timestamp_ms, clock))
    THEN [kind |-> "BlockTooFarInFuture",
          block_timestamp |-> serialized_block.timestamp_ms,
          forward_time_drift |-> ForwardTimeDrift(serialized_block.timestamp_ms, clock)]
    ELSE Ok

\* The checks of the handler, up to the sleep: the error returned, or Ok.
CheckSendBlock(peer, serialized_block, clock) ==
    IF serialized_block.kind = "malformed" THEN [kind |-> "MalformedBlock"]
    ELSE IF ~ProducedBy(peer, serialized_block)
    THEN [kind |-> "UnexpectedAuthority", author |-> author(serialized_block.block),
          peer |-> peer]
    ELSE IF ~serialized_block.verify_ok THEN [kind |-> "InvalidBlock"]
    ELSE IF TooFarInFuture(ForwardTimeDrift(serialized_block.timestamp_ms, clock))
    THEN [kind |-> "BlockTooFarInFuture",
          block_timestamp |-> serialized_block.timestamp_ms,
          forward_time_drift |-> ForwardTimeDrift(serialized_block.timestamp_ms, clock)]
    ELSE Ok

NoReturn == [kind |-> "none"]

\* Faulty variant: the synchronizer is called for an empty set as well.
ScheduleFetchAlways(missing_refs, peer) ==
    {[missing_ancestors |-> missing_refs, peer |-> peer]}

\* "schedule the fetching of them from this peer": the calls of
\* synchronizer.fetch_blocks the handler makes, none if nothing is missing.
ScheduleFetch(missing_refs, peer) ==
    IF missing_refs # {}
    THEN {[missing_ancestors |-> missing_refs, peer |-> peer]}
    ELSE {}

\* --------------------------------------------------------- CommitConsumer
\* CommitConsumer::new(sender, last_processed_index, last_processed_round), as
\* every start of an authority in the tests passes it.
last_processed_index == 0

\* ------------------------------------------------------------- actions
\* TrafficController::spawn: an empty channel, empty blocklists, fresh policies.
InitTraffic ==
    /\ tally_channel = <<>>
    /\ blocklists = [connection_ips |-> EmptyMap, proxy_ips |-> EmptyMap]
    /\ spam_policy = [frequencies |-> EmptyMap]
    /\ check = Idle
    /\ tally_ret = NoReturn

\* AuthorityNode::start with CommitConsumer::new(sender, 0, 0): nothing is proposed,
\* submitted or committed.
InitCommit ==
    /\ block_txs = EmptyMap
    /\ tx_queue = [a \in Authorities |-> {}]
    /\ tx_submitted = {}
    /\ commit_observer = [last_index |-> last_processed_index, last_round |-> 0,
                          committed |-> {}]
    /\ commit_consumer = <<>>

\* The components AuthorityNode::stop stops, in the order of its statements.
StopOrder == <<"network_manager", "broadcaster", "core_thread_handle",
               "leader_timeout_handle", "synchronizer">>

Components == SeqToSet(StopOrder)

\* AuthorityNode::start has returned: every component runs, stop() is not called.
\* `stopped` lists the components stopped so far, in the order they were stopped.
InitNode == node = [pc |-> "started", running |-> Components, stopped |-> <<>>]

InitWith(dags, verifiers) ==
    /\ ancestors \in dags
    /\ fail \in verifiers
    /\ dag_state = Genesis
    /\ suspended_blocks = EmptyMap
    /\ missing_ancestors = EmptyMap
    /\ missing_blocks = {}
    /\ panic = NoPanic
    /\ ret = [accepted |-> <<>>, newly_missing |-> {}, writes |-> <<>>,
              checked |-> <<>>, rejected |-> {}]
    /\ submitted = {}
    /\ accepted_count = [b \in Blocks |-> 0]
    /\ reported = {}
    /\ fetch = Idle
    /\ now = 0
    /\ tasks = <<>>
    /\ send_ret = NoReturn
    /\ InitTraffic
    /\ InitCommit
    /\ InitNode

Init == InitWith(Dags, Verifiers)

\* BlockManager::try_accept_blocks(input): it returns, or it panics.
TryAcceptBlocks(input) ==
    /\ panic = NoPanic
    /\ submitted' = submitted \cup SeqToSet(input)
    /\ \E end \in {RunCall(Manager, dag_state, input)} :
       LET newly == NewlyMissing(end.bm.missing_blocks, missing_blocks)
       IN  /\ suspended_blocks' = end.bm.suspended_blocks
           /\ missing_ancestors' = end.bm.missing_ancestors
           /\ missing_blocks' = end.bm.missing_blocks
           /\ dag_state' = end.dag
           /\ panic' = end.panic
           /\ IF end.panic # NoPanic
              THEN UNCHANGED <<ret, accepted_count, reported>>
              ELSE /\ ret' = [accepted |-> end.accepted_blocks, newly_missing |-> newly,
                              writes |-> end.writes, checked |-> end.checked,
                              rejected |-> end.rejected]
                   /\ accepted_count' = [b \in Blocks |->
                          Capped(accepted_count[b] + Count(end.accepted_blocks, b))]
                   /\ reported' = reported \cup newly
    /\ UNCHANGED <<ancestors, fail>>

service_vars == <<fetch, now, tasks, send_ret>>

traffic_vars == <<tally_channel, blocklists, spam_policy, check, tally_ret>>

commit_vars == <<block_txs, tx_queue, tx_submitted, commit_observer, commit_consumer>>

\* What the BlockManager and AuthorityService do not touch.
outside_vars == <<traffic_vars, commit_vars, node>>

Next == \E input \in Batches : TryAcceptBlocks(input) /\ UNCHANGED <<service_vars, outside_vars>>

Spec == Init /\ [][Next]_vars

\* The same manager with NoopBlockVerifier, which accepts every block.
InitNoop == InitWith(Dags, {{}})

SpecNoop == InitNoop /\ [][Next]_vars

\* ---------------------------------------------------- the fetch requests
\* handle_fetch_blocks up to its first read of DagState: the request is rejected,
\* or the requested blocks are looked up.
FetchRead(peer, block_refs, highest_accepted_rounds) ==
    /\ fetch.pc = "idle"
    /\ LET request == [peer |-> peer, block_refs |-> block_refs,
                       highest_accepted_rounds |-> highest_accepted_rounds]
           valid == ValidateRequest(peer, block_refs)
       IN  IF valid.kind # "Ok"
           THEN fetch' = [pc |-> "done", request |-> request, result |-> valid]
           ELSE fetch' = [pc |-> "ancestors", request |-> request,
                          blocks |-> get_blocks(dag_state, block_refs)]

\* The rest of handle_fetch_blocks: the ancestors to serve, the second read of
\* DagState, the response.
FetchReturn ==
    /\ fetch.pc = "ancestors"
    /\ fetch' = [pc |-> "done", request |-> fetch.request,
                 result |-> FetchResult(dag_state, fetch.blocks,
                                        fetch.request.highest_accepted_rounds)]

\* The response has gone to the peer.
FetchReply ==
    /\ fetch.pc = "done"
    /\ fetch' = Idle

bm_vars == <<ancestors, fail, dag_state, suspended_blocks, missing_ancestors, missing_blocks,
             panic, ret, submitted, accepted_count, reported>>

send_vars == <<now, tasks, send_ret>>

\* The lists of refs of the requests: every list of up to MaxFetch refs, among them
\* a genesis ref and a ref of an author outside the committee, and lists of one
\* ref repeated up to the limit and one past it.
FetchRefs == Blocks \cup {<<0, 1>>, <<1, NumAuthorities + 1>>}

FetchLists ==
    UNION { [1..n -> FetchRefs] : n \in 1..MaxFetch }
    \cup { [i \in 1..n |-> b] : b \in Blocks,
           n \in {MAX_ALLOWED_FETCH_BLOCKS, MAX_ALLOWED_FETCH_BLOCKS + 1} }

\* The highest_accepted_rounds a peer can send: a round for every authority, or
\* for fewer.
PeerRounds == UNION { [1..n -> 0..(MaxRound - 1)] : n \in 0..NumAuthorities }

\* The DagStates of the causally complete sets of blocks.
DagStates(anc) ==
    {Genesis \cup S : S \in {T \in SUBSET Blocks : \A b \in T : anc[b] \cap Blocks \subseteq T}}

\* AuthorityService over a DagState that holds a causally complete set of blocks,
\* all accepted one by one.
InitFetch ==
    /\ ancestors \in Dags
    /\ fail = {}
    /\ dag_state \in DagStates(ancestors)
    /\ suspended_blocks = EmptyMap
    /\ missing_ancestors = EmptyMap
    /\ missing_blocks = {}
    /\ panic = NoPanic
    /\ ret = [accepted |-> <<>>, newly_missing |-> {}, writes |-> <<>>,
              checked |-> <<>>, rejected |-> {}]
    /\ submitted = dag_state \cap Blocks
    /\ accepted_count = [b \in Blocks |-> IF b \in dag_state THEN 1 ELSE 0]
    /\ reported = {}
    /\ fetch = Idle
    /\ now = 0
    /\ tasks = <<>>
    /\ send_ret = NoReturn
    /\ InitTraffic
    /\ InitCommit
    /\ InitNode

NextFetch ==
    \/ /\ fetch.pc = "idle"
       /\ \E peer \in Authorities, block_refs \in FetchLists,
             highest_accepted_rounds \in PeerRounds :
              FetchRead(peer, block_refs, highest_accepted_rounds)
       /\ UNCHANGED <<bm_vars, send_vars, outside_vars>>
    \/ FetchReturn /\ UNCHANGED <<bm_vars, send_vars, outside_vars>>
    \/ FetchReply /\ UNCHANGED <<bm_vars, send_vars, outside_vars>>

SpecFetch == InitFetch /\ [][NextFetch]_vars

\* AuthorityService next to the BlockManager: blocks arrive one at a time, as
\* handle_send_block passes them on, while a peer that has no block yet fetches one
\* block at a time.
InitVisible == InitWith({SparseDag}, Verifiers)

NextVisible ==
    \/ \E b \in Blocks : TryAcceptBlocks(<<b>>) /\ UNCHANGED <<service_vars, outside_vars>>
    \/ /\ fetch.pc = "idle"
       /\ \E b \in Blocks : FetchRead(1, <<b>>, [a \in Authorities |-> 0])
       /\ UNCHANGED <<bm_vars, send_vars, outside_vars>>
    \/ FetchReturn /\ UNCHANGED <<bm_vars, send_vars, outside_vars>>
    \/ FetchReply /\ UNCHANGED <<bm_vars, send_vars, outside_vars>>

SpecVisible == InitVisible /\ [][NextVisible]_vars

\* ------------------------------------------------------ the sent blocks
\* Core::add_blocks: the blocks go through the BlockManager; the refs returned
\* are the newly missing ancestors.
add_blocks(blocks) == TryAcceptBlocks(blocks)

\* CoreThreadDispatcher::add_blocks returns Err: the Core thread has ended, with a
\* panic or stopped by AuthorityNode::stop.
DispatcherClosed == panic # NoPanic \/ "core_thread_handle" \notin node.running

\* Faulty variant: the error of the dispatcher is passed over and the handler goes on.
OnDispatcherErrorIgnored(waited) ==
    [kind |-> "Ok", handed |-> FALSE, waited |-> waited, fetch_blocks |-> {},
     fetched |-> "none"]

\* ".map_err(|_| ConsensusError::Shutdown)?": the handler returns the error at once.
OnDispatcherError(waited) == [kind |-> "Shutdown", handed |-> FALSE, waited |-> waited]

\* What synchronizer.fetch_blocks can return when it is called, and the outcome
\* recorded when it is not.
FetchOutcomes(fetch_blocks) == IF fetch_blocks = {} THEN {"none"} ELSE {"Ok", "Err"}

\* Faulty variant: the error of the synchronizer is returned to the peer.
SendResultSurfacing(fetched) == IF fetched = "Err" THEN "SynchronizerError" ELSE "Ok"

\* "if let Err(err) = ... { warn!(..) }" and then Ok(()): the outcome is only logged.
SendResult(fetched) == "Ok"

\* handle_send_block from core_dispatcher.add_blocks(vec![verified_block]) on:
\* the block is handed to Core, the missing ancestors it returns are given to the
\* synchronizer to fetch from the peer, Ok is returned whatever the synchronizer
\* answers; when Core is gone the error is Shutdown. `waited` is the time the
\* handler has slept.
AddBlocksAndReturn(peer, verified_block, waited) ==
    IF DispatcherClosed
    THEN /\ send_ret' = OnDispatcherError(waited)
         /\ UNCHANGED bm_vars
    ELSE /\ add_blocks(<<verified_block.block>>)
         /\ IF panic' # NoPanic
            THEN send_ret' = [kind |-> "Shutdown", handed |-> TRUE, waited |-> waited]
            ELSE \E fetched \in FetchOutcomes(ScheduleFetch(ret'.newly_missing, peer)) :
                     send_ret' = [kind |-> SendResult(fetched), handed |-> TRUE,
                                  waited |-> waited,
                                  fetch_blocks |-> ScheduleFetch(ret'.newly_missing, peer),
                                  fetched |-> fetched]

\* handle_send_block(peer, serialized_block) up to its return or its sleep.
HandleSendBlock(peer, serialized_block) ==
    LET checked == CheckSendBlock(peer, serialized_block, now)
    IN  IF checked.kind # "Ok"
        THEN /\ send_ret' = checked
             /\ UNCHANGED <<bm_vars, tasks>>
        ELSE LET forward_time_drift == ForwardTimeDrift(serialized_block.timestamp_ms, now)
             IN  IF forward_time_drift > 0
                 THEN /\ Len(tasks) < MaxSleeping
                      /\ tasks' = Append(tasks,
                                      [peer |-> peer, verified_block |-> serialized_block,
                                       forward_time_drift |-> forward_time_drift,
                                       deadline |-> Deadline(now, forward_time_drift)])
                      /\ UNCHANGED <<bm_vars, send_ret>>
                 ELSE /\ AddBlocksAndReturn(peer, serialized_block, 0)
                      /\ UNCHANGED tasks

\* The sleep of handler i has elapsed: the handler goes on to its end.
SendBlockWake(i) ==
    /\ tasks[i].deadline <= now
    /\ tasks' = [j \in 1..(Len(tasks) - 1) |-> IF j < i THEN tasks[j] ELSE tasks[j + 1]]
    /\ AddBlocksAndReturn(tasks[i].peer, tasks[i].verified_block, tasks[i].forward_time_drift)

\* A ms passes.
Tick ==
    /\ now < MaxTime
    /\ now' = now + 1

\* The blocks the peers send, of the rounds up to MaxSendRound: valid blocks that
\* carry the current time, a time up to max_forward_time_drift + 1 ahead or a time
\* in the past, blocks of the current time that fail the verification, and bytes
\* that are no block.
SendBlocks == {b \in Blocks : round(b) <= MaxSendRound}

Messages ==
    {Malformed}
    \cup SignedBlocks(SendBlocks,
                      {t \in 0..MaxTime : t >= now - 1 /\ t <= now + max_forward_time_drift + 1},
                      {TRUE})
    \cup SignedBlocks(SendBlocks, {now}, {FALSE})

\* AuthorityService with the BlockManager behind Core, NoopBlockVerifier for the
\* ancestors: peers send blocks while the clock runs.
InitSend == InitWith({FullDag}, {{}})

NextSend ==
    \/ \E peer \in Authorities, serialized_block \in Messages :
           HandleSendBlock(peer, serialized_block) /\ UNCHANGED <<fetch, now, outside_vars>>
    \/ \E i \in 1..Len(tasks) : SendBlockWake(i) /\ UNCHANGED <<fetch, now, outside_vars>>
    \/ Tick /\ UNCHANGED <<bm_vars, fetch, tasks, send_ret, outside_vars>>

SpecSend == InitSend /\ [][NextSend]_vars

\* ------------------------------------------------------ AuthorityNode::stop
\* AuthorityNode::stop is called on the started authority.
Stop ==
    /\ node.pc = "started"
    /\ node' = [node EXCEPT !.pc = "stopping"]

\* Faulty variant: the Core thread is stopped first, the network manager third.
NextToStopCoreFirst(stopped) ==
    <<"core_thread_handle", "broadcaster", "network_manager",
      "leader_timeout_handle", "synchronizer">>[Len(stopped) + 1]

\* The component of the next stop statement.
NextToStop(stopped) == StopOrder[Len(stopped) + 1]

\* One "<component>.stop().await" of AuthorityNode::stop: the tasks of the component
\* see the cancellation and exit, and its stop() returns.
StopStep ==
    /\ node.pc = "stopping"
    /\ Len(node.stopped) < Len(StopOrder)
    /\ node' = [node EXCEPT !.running = @ \ {NextToStop(node.stopped)},
                            !.stopped = Append(@, NextToStop(node.stopped))]

\* The end of AuthorityNode::stop: the uptime is observed and stop() returns.
StopReturn ==
    /\ node.pc = "stopping"
    /\ Len(node.stopped) = Len(StopOrder)
    /\ node' = [node EXCEPT !.pc = "returned"]

not_node_vars == <<bm_vars, service_vars, traffic_vars, commit_vars>>

\* A started authority: peers send blocks while the network manager runs, the
\* handlers that sleep wake when their time has come, the clock runs, and stop()
\* is called at any moment.
NextNode ==
    \/ /\ "network_manager" \in node.running
       /\ \E peer \in Authorities, serialized_block \in Messages :
              HandleSendBlock(peer, serialized_block)
       /\ UNCHANGED <<fetch, now, outside_vars>>
    \/ \E i \in 1..Len(tasks) : SendBlockWake(i) /\ UNCHANGED <<fetch, now, outside_vars>>
    \/ Tick /\ UNCHANGED <<bm_vars, fetch, tasks, send_ret, outside_vars>>
    \/ Stop /\ UNCHANGED not_node_vars
    \/ StopStep /\ UNCHANGED not_node_vars
    \/ StopReturn /\ UNCHANGED not_node_vars

SpecNode == InitSend /\ [][NextNode]_vars

\* stop() runs on: each of its statements is executed once it can be.
SpecNodeLive ==
    /\ SpecNode
    /\ WF_vars(StopStep /\ UNCHANGED not_node_vars)
    /\ WF_vars(StopReturn /\ UNCHANGED not_node_vars)

\* ---------------------------------------------------- TrafficController
\* The clock `now` counts seconds here. A TrafficTally carries a connection ip
\* (TestNConnIPPolicy unwraps it); its result only matters to the error
\* policy, which is NoOp and leaves everything as it is.
Ips == 1..NumIps

Tallies == [connection_ip : Ips]

\* An Option as a set: None is {}, Some(x) is {x}.
Options(S) == {{}} \cup {{x} : x \in S}

\* Faulty variant: on a full channel the oldest tally is evicted for the new one.
try_send_evicting(channel, tally) ==
    IF Len(channel) < channel_capacity
    THEN [kind |-> "Ok", channel |-> Append(channel, tally)]
    ELSE [kind |-> "Full", channel |-> Append(Tail(channel), tally)]

\* mpsc::Sender::try_send on the channel of capacity channel_capacity.
try_send(channel, tally) ==
    IF Len(channel) < channel_capacity
    THEN [kind |-> "Ok", channel |-> Append(channel, tally)]
    ELSE [kind |-> "Full", channel |-> channel]

\* TrafficController::tally: the tally is queued, or dropped when the channel is
\* full; the caller goes on either way.
Tally(tally) ==
    /\ \E sent \in {try_send(tally_channel, tally)} :
           /\ tally_channel' = sent.channel
           /\ tally_ret' = [kind |-> sent.kind, tally |-> tally]
    /\ UNCHANGED <<blocklists, spam_policy, check>>

\* TestNConnIPPolicy::handle_tally: the policy afterwards and its PolicyResponse.
handle_tally(policy, tally) ==
    LET ip == tally.connection_ip
        count == (IF ip \in DOMAIN policy.frequencies THEN policy.frequencies[ip] ELSE 0) + 1
    IN  [policy |-> [frequencies |-> MapPut(policy.frequencies, ip, count)],
         response |-> [block_connection_ip |-> IF count >= threshold THEN {ip} ELSE {},
                       block_proxy_ip |-> {}]]

\* HashMap::insert(ip, expiration) for the ip of the Option `ip`, if any.
Block(blocklist, ip, expiration) ==
    [x \in (DOMAIN blocklist) \cup ip |-> IF x \in ip THEN expiration ELSE blocklist[x]]

\* handle_policy_response at the time `clock`: the blocklists afterwards.
handle_policy_response(response, lists, clock) ==
    [connection_ips |-> Block(lists.connection_ips, response.block_connection_ip,
                              clock + connection_blocklist_ttl_sec),
     proxy_ips |-> Block(lists.proxy_ips, response.block_proxy_ip,
                         clock + proxy_blocklist_ttl_sec)]

\* One turn of run_tally_loop: a tally is received and handled by the spam policy
\* (handle_spam_tally, no delegation to a firewall) and by the error policy.
RunTallyLoop ==
    /\ tally_channel # <<>>
    /\ \A ip \in DOMAIN spam_policy.frequencies :
           spam_policy.frequencies[ip] < MaxFrequency \/ ip # Head(tally_channel).connection_ip
    /\ LET spam == handle_tally(spam_policy, Head(tally_channel))
       IN  /\ tally_channel' = Tail(tally_channel)
           /\ spam_policy' = spam.policy
           /\ blocklists' = handle_policy_response(spam.response, blocklists, now)
    /\ UNCHANGED <<check, tally_ret>>

\* TrafficController::check up to the read of the blocklist in
\* check_and_clear_blocklist: the time and the expiration found are kept; without
\* an address the request is allowed at once.
CheckRead(connection_ip, proxy_ip) ==
    /\ check.pc # "read"
    /\ IF connection_ip = {} /\ proxy_ip = {}
       THEN check' = [pc |-> "done", allowed |-> TRUE]
       ELSE LET connection_ips == connection_ip # {}
                ip == CHOOSE x \in (IF connection_ips THEN connection_ip ELSE proxy_ip) : TRUE
                blocklist == IF connection_ips THEN blocklists.connection_ips
                             ELSE blocklists.proxy_ips
            IN  check' = [pc |-> "read", ip |-> ip, connection_ips |-> connection_ips,
                          now |-> now,
                          expiration |-> IF ip \in DOMAIN blocklist THEN {blocklist[ip]}
                                         ELSE {}]
    /\ UNCHANGED <<tally_channel, blocklists, spam_policy, tally_ret>>

\* "Some(expiration) if now >= expiration"
Expired(clock, expiration) == \E e \in expiration : clock >= e

\* The rest of check_and_clear_blocklist: an entry found expired is removed from
\* the blocklist as it is now and the request is allowed; it is allowed also when
\* no entry was found, and refused otherwise.
CheckReturn ==
    /\ check.pc = "read"
    /\ IF Expired(check.now, check.expiration)
       THEN /\ blocklists' =
                  IF check.connection_ips
                  THEN [blocklists EXCEPT !.connection_ips = MapRemove(@, check.ip)]
                  ELSE [blocklists EXCEPT !.proxy_ips = MapRemove(@, check.ip)]
            /\ check' = [pc |-> "done", allowed |-> TRUE, ip |-> check.ip,
                         connection_ips |-> check.connection_ips, removed |-> TRUE]
       ELSE /\ check' = [pc |-> "done", allowed |-> check.expiration = {}, ip |-> check.ip,
                         connection_ips |-> check.connection_ips, removed |-> FALSE]
            /\ UNCHANGED blocklists
    /\ UNCHANGED <<tally_channel, spam_policy, tally_ret>>

\* TrafficController::spawn, then requests are tallied and checked while the tally
\* loop runs and time passes.
InitController == InitWith({FullDag}, {{}})

not_traffic_vars == <<bm_vars, fetch, tasks, send_ret, commit_vars, node>>

NextTraffic ==
    \/ \E tally \in Tallies : Tally(tally) /\ UNCHANGED <<now, not_traffic_vars>>
    \/ RunTallyLoop /\ UNCHANGED <<now, not_traffic_vars>>
    \/ \E connection_ip \in Options(Ips), proxy_ip \in Options(Ips) :
           CheckRead(connection_ip, proxy_ip) /\ UNCHANGED <<now, not_traffic_vars>>
    \/ CheckReturn /\ UNCHANGED <<now, not_traffic_vars>>
    \/ Tick /\ UNCHANGED <<traffic_vars, not_traffic_vars>>

SpecTraffic == InitController /\ [][NextTraffic]_vars

\* ------------------------------------- TransactionClient, Core, CommitObserver
\* The authority whose DagState, BlockManager and commit consumer these are; the
\* other authorities are its peers.
own_index == 1

Txs == 1..MaxTx

\* The committee tolerates f faulty authorities, NumAuthorities >= 3f + 1; a quorum
\* is 2f + 1.
quorum_threshold == 2 * ((NumAuthorities - 1) \div 3) + 1

\* The leader of a round: a fixed function of the round and the committee.
leader(r) == <<r, (r % NumAuthorities) + 1>>

\* TransactionClient::submit at authority a of a transaction not submitted before.
Submit(txn, a) ==
    /\ txn \notin tx_submitted
    /\ tx_submitted' = tx_submitted \cup {txn}
    /\ tx_queue' = [tx_queue EXCEPT ![a] = @ \cup {txn}]
    /\ UNCHANGED <<block_txs, commit_observer, commit_consumer>>

\* The round of the next block of authority a.
NextRound(a) == Cardinality({b \in DOMAIN block_txs : author(b) = a}) + 1

\* Core of authority a proposes its next block, with the transactions that wait in
\* its queue: its ancestors have been proposed, a quorum of them in the round before,
\* and for this authority they are in DagState, to which the block is written.
Propose(a) ==
    /\ panic = NoPanic
    /\ NextRound(a) <= MaxRound
    /\ LET b == <<NextRound(a), a>>
       IN  /\ ancestors[b] \cap Blocks \subseteq DOMAIN block_txs
           /\ Cardinality({x \in ancestors[b] : round(x) = round(b) - 1}) >= quorum_threshold
           /\ a = own_index => ancestors[b] \subseteq dag_state
           /\ block_txs' = MapPut(block_txs, b, tx_queue[a])
           /\ tx_queue' = [tx_queue EXCEPT ![a] = {}]
           /\ dag_state' = IF a = own_index THEN accept_blocks(dag_state, {b}) ELSE dag_state
    /\ UNCHANGED <<ancestors, fail, suspended_blocks, missing_ancestors, missing_blocks,
                   panic, ret, submitted, accepted_count, reported,
                   tx_submitted, commit_observer, commit_consumer>>

\* A block a peer has proposed reaches Core::add_blocks of this authority.
Receive(b) ==
    /\ b \in DOMAIN block_txs
    /\ author(b) # own_index
    /\ add_blocks(<<b>>)
    /\ UNCHANGED commit_vars

\* The blocks of round(L) + 1 in DagState that have the leader L in their causal
\* history.
Support(dag, L) == {b \in dag \cap Blocks : round(b) = round(L) + 1 /\ L \in Ancestry(b)}

\* Faulty variant: the whole causal closure of the leader is emitted.
WholeClosure(closure, committed) == closure

\* "the leader's causal closure restricted to blocks not yet committed"
Uncommitted(closure, committed) == closure \ committed

\* Faulty variant: an index is left out.
NextIndexSkipping(last_index) == last_index + 2

\* "Assign the next dense commit index"
NextIndex(last_index) == last_index + 1

\* CommitObserver commits the leader of round r, a round after the last leader it
\* committed (the leaders between are skipped): the leader is in DagState with a
\* quorum of support; the sub-DAG goes to the consumer in (round, author) order.
Commit(r) ==
    /\ panic = NoPanic
    /\ r > commit_observer.last_round
    /\ leader(r) \in dag_state
    /\ Cardinality(Support(dag_state, leader(r))) >= quorum_threshold
    /\ LET blocks == Uncommitted(Ancestry(leader(r)), commit_observer.committed)
           index == NextIndex(commit_observer.last_index)
       IN  /\ commit_consumer' = Append(commit_consumer,
                                        [leader |-> leader(r), blocks |-> SortedSeq(blocks),
                                         index |-> index])
           /\ commit_observer' = [last_index |-> index, last_round |-> r,
                                  committed |-> commit_observer.committed \cup blocks]
    /\ UNCHANGED <<block_txs, tx_queue, tx_submitted>>

\* One authority of a committee: transactions are submitted to the authorities,
\* their Cores propose, the blocks of the peers arrive in any order, and the
\* CommitObserver commits.
InitAuthority == InitWith(Dags, {{}})

NextAuthority ==
    \/ \E txn \in Txs, a \in Authorities :
           Submit(txn, a) /\ UNCHANGED <<bm_vars, service_vars, traffic_vars, node>>
    \/ \E a \in Authorities : Propose(a) /\ UNCHANGED <<service_vars, traffic_vars, node>>
    \/ \E b \in Blocks : Receive(b) /\ UNCHANGED <<service_vars, traffic_vars, node>>
    \/ \E r \in 1..(MaxRound - 1) :
           Commit(r) /\ UNCHANGED <<bm_vars, service_vars, traffic_vars, node>>

SpecAuthority == InitAuthority /\ [][NextAuthority]_vars

\* ------------------------------------------------------------ properties
\* Every call made so far has returned.
Alive == panic = NoPanic

Accepted == {b \in Blocks : accepted_count[b] >= 1}

Suspended == DOMAIN suspended_blocks

\* C1: every block stored in DagState has all its ancestor refs stored in DagState.
CausalClosure ==
    \A b \in dag_state \cap Blocks : ancestors[b] \subseteq dag_state

\* A call accepted an input together with unsuspended descendants, up to round 3.
CausalClosureWitness ==
    /\ Len(ret.accepted) >= 2
    /\ \E b \in dag_state : round(b) = 3
    /\ \E b \in SeqToSet(ret.accepted) : \E a \in ancestors[b] : a \in SeqToSet(ret.accepted)

\* C2: no block is returned in `accepted` more than once, over all calls.
AcceptedAtMostOnce == \A b \in Blocks : accepted_count[b] <= 1

\* The last call re-submitted blocks that were accepted before: it returned nothing.
AcceptedAtMostOnceWitness ==
    /\ Alive
    /\ submitted # {}
    /\ submitted \subseteq dag_state
    /\ ret.accepted = <<>>

\* C3: the blocks returned as accepted are exactly the submitted blocks whose whole
\* causal history was submitted and holds no block the verifier rejects, each once.
AcceptedExactlyConnected ==
    /\ Accepted = {b \in submitted : Ancestry(b) \subseteq submitted /\ Ancestry(b) \cap fail = {}}
    /\ \A b \in Blocks : accepted_count[b] <= 1

\* C3 over the calls that returned.
AcceptedExactlyConnectedAlive == Alive => AcceptedExactlyConnected

\* Every non-genesis ancestor of a block of S is in S.
CausallyComplete(S) == \A b \in S : ancestors[b] \cap Blocks \subseteq S

\* C4: with the verifier that accepts every block, once a causally complete set has
\* been submitted, in any order, exactly that set was accepted and nothing is missing
\* or suspended.
OrderIndependence ==
    (fail = {} /\ CausallyComplete(submitted)) =>
        /\ Alive
        /\ Accepted = submitted
        /\ \A b \in submitted : accepted_count[b] = 1
        /\ missing_blocks = {}
        /\ Suspended = {}

\* Every block was submitted, some of them before their ancestors.
OrderIndependenceWitness ==
    /\ fail = {}
    /\ submitted = Blocks
    /\ reported # {}
    /\ dag_state = Refs

\* The blocks for which check_ancestors returned an error in the last call.
FailedInCall == {b \in SeqToSet(ret.checked) : ~check_ancestors(b)}

\* The received blocks that have a block of R as ancestor, through received blocks.
RECURSIVE Cascade(_)
Cascade(R) ==
    LET N == R \cup {c \in submitted : ancestors[c] \cap R # {}}
    IN  IF N = R THEN R ELSE Cascade(N)

\* C5: after a call in which check_ancestors failed for a block, no received block
\* that has it as ancestor, directly or through other such blocks, is in DagState
\* or in suspended_blocks.
RejectionCascades ==
    Alive => \A c \in Cascade(FailedInCall) : c \notin dag_state /\ c \notin Suspended

\* C6: a block that has a block failing check_ancestors in its causal history (itself
\* included) is never in DagState and never returned as accepted.
RejectedNeverAccepted ==
    \A b \in Blocks :
        Ancestry(b) \cap fail # {} => b \notin dag_state /\ accepted_count[b] = 0

\* A call rejected a block that failed check_ancestors and a descendant with it.
RejectedNeverAcceptedWitness ==
    /\ Alive
    /\ FailedInCall # {}
    /\ ret.rejected \ FailedInCall # {}
    /\ ret.accepted # <<>>

\* C7. The calls whose input is made of new blocks that each have an ancestor that is
\* not in DagState: the batches of such blocks (a call adds its input to `submitted`).
ToSuspend ==
    {b \in submitted' :
        ~AlreadyKnown(Manager, dag_state, b) /\ NotFoundAncestors(dag_state, b) # {}}

AllToSuspend == UNION { [1..n -> ToSuspend] : n \in 1..MaxBatch }

\* The ancestors of the input blocks that are not in DagState, not suspended (after
\* the call) and were not in missing_blocks before the call.
ExpectedNewlyMissing(input) ==
    {a \in UNION {ancestors[input[i]] : i \in 1..Len(input)} :
        a \notin dag_state /\ a \notin Suspended' /\ a \notin missing_blocks}

\* C7 as stated: such a call accepts nothing, suspends every input block, and both
\* newly_missing and missing_blocks() equal ExpectedNewlyMissing.
SuspendAllOriginal ==
    [][\A input \in AllToSuspend :
          TryAcceptBlocks(input) =>
              /\ Alive'
              /\ ret'.accepted = <<>>
              /\ SeqToSet(input) \subseteq Suspended'
              /\ ret'.newly_missing = ExpectedNewlyMissing(input)
              /\ missing_blocks' = ExpectedNewlyMissing(input)]_vars

\* C7 amended: newly_missing equals ExpectedNewlyMissing, and missing_blocks() is
\* what was missing before, less the input blocks, plus newly_missing.
SuspendAll ==
    [][\A input \in AllToSuspend :
          TryAcceptBlocks(input) =>
              /\ Alive'
              /\ ret'.accepted = <<>>
              /\ SeqToSet(input) \subseteq Suspended'
              /\ ret'.newly_missing = ExpectedNewlyMissing(input)
              /\ missing_blocks' =
                    (missing_blocks \ SeqToSet(input)) \cup ExpectedNewlyMissing(input)]_vars

\* A call suspended blocks and reported part of what is missing as new.
SuspendAllWitness ==
    /\ Alive
    /\ ret.accepted = <<>>
    /\ ret.newly_missing # {}
    /\ ret.newly_missing # missing_blocks
    /\ Cardinality(Suspended) >= 2

\* C8: after every call, missing_blocks and the keys of suspended_blocks are disjoint.
MissingNotSuspended == Alive => missing_blocks \cap Suspended = {}

\* A block once reported missing is now suspended, with an ancestor of its own missing.
MissingNotSuspendedWitness ==
    /\ Alive
    /\ \E b \in Suspended : b \in reported /\ suspended_blocks[b] \cap missing_blocks # {}

\* C9: after every call, no suspended block has an empty missing_ancestors set.
NoEmptyMissingSet == Alive => \A b \in Suspended : suspended_blocks[b] # {}

\* A call unsuspended a block whose last ancestor arrived, others stay suspended.
NoEmptyMissingSetWitness ==
    /\ Alive
    /\ Len(ret.accepted) >= 2
    /\ Suspended # {}

\* C10: newly_missing is missing_blocks after the call less missing_blocks before it,
\* and with the verifier that accepts every block no ref is returned in newly_missing
\* by two calls.
MissingReportedOnce ==
    [][Alive' =>
          /\ ret'.newly_missing = missing_blocks' \ missing_blocks
          /\ (fail = {} => ret'.newly_missing \cap reported = {})]_vars

\* Under the accepting verifier a call reported nothing new although blocks are
\* missing that an earlier call reported.
MissingReportedOnceWitness ==
    /\ Alive
    /\ fail = {}
    /\ ret.newly_missing = {}
    /\ missing_blocks # {}
    /\ missing_blocks \subseteq reported
    /\ Cardinality(Suspended) >= 2

\* C11: the `accepted` list of a call is in causal order: every ancestor of a block
\* of the list is earlier in the list or was in DagState before the call.
CausalOrder ==
    [][Alive' =>
          \A i \in 1..Len(ret'.accepted) :
              \A a \in ancestors[ret'.accepted[i]] :
                  a \in dag_state \/ \E j \in 1..(i - 1) : ret'.accepted[j] = a]_vars

\* A call returned a chain of three blocks, each later one a descendant of the first.
CausalOrderWitness ==
    /\ Alive
    /\ Len(ret.accepted) >= 3
    /\ \A i \in 2..Len(ret.accepted) : ret.accepted[1] \in Ancestry(ret.accepted[i])
    /\ round(ret.accepted[Len(ret.accepted)]) = 3

\* C12: the rounds of the `accepted` list of a call are non-decreasing.
RoundAscending ==
    Alive => \A i \in 1..(Len(ret.accepted) - 1) :
                 round(ret.accepted[i]) <= round(ret.accepted[i + 1])

\* C13: a call writes the blocks it accepts to DagState in one batch: DagState is
\* written at most once per call, so no state between two writes can be read.
OneBatchWrite == Alive => Len(ret.writes) <= 1

\* The handler has returned; its request and its response.
FetchDone == fetch.pc = "done"

Requested == SeqToSet(fetch.request.block_refs)

\* C14: a response of handle_fetch_blocks holds only received blocks that are not
\* suspended and whose causal history was received and holds no block the verifier
\* rejects; and a request made after a block was accepted, that names it, returns it.
AcceptedOnlyVisible ==
    [][/\ (fetch'.pc = "done" /\ fetch'.result.kind = "Ok") =>
              \A b \in SeqToSet(fetch'.result.blocks) :
                  /\ b \in submitted'
                  /\ b \notin Suspended'
                  /\ Ancestry(b) \subseteq submitted'
                  /\ Ancestry(b) \cap fail = {}
       /\ (fetch.pc = "idle" /\ fetch'.pc # "idle") =>
              \A i \in 1..Len(fetch'.request.block_refs) :
                  fetch'.request.block_refs[i] \in Accepted =>
                      /\ fetch'.pc = "ancestors"
                      /\ fetch'.blocks[i] = fetch'.request.block_refs[i]
       /\ (fetch.pc = "ancestors" /\ fetch'.pc = "done") =>
              /\ fetch'.result.kind = "Ok"
              /\ SeqToSet(Flatten(fetch.blocks)) \subseteq SeqToSet(fetch'.result.blocks)
      ]_vars

\* A fetch returned an accepted block with an ancestor while another block is
\* suspended and a block was rejected.
AcceptedOnlyVisibleWitness ==
    /\ FetchDone
    /\ fetch.result.kind = "Ok"
    /\ Len(fetch.result.blocks) >= 2
    /\ Suspended # {}
    /\ fail \cap submitted # {}
    /\ fail \cap Suspended = {}

\* The request passes the checks of the refs and names a round for every authority.
ValidRequest ==
    /\ \A b \in Requested : is_valid_index(author(b)) /\ round(b) # 0
    /\ Len(fetch.request.highest_accepted_rounds) = NumAuthorities

\* C18: a request of exactly 200 refs is not rejected for its length (and is served
\* when it is valid), a request of 201 refs is rejected with
\* TooManyFetchBlocksRequested, which carries no block.
FetchLimit ==
    FetchDone =>
        /\ Len(fetch.request.block_refs) = 201 =>
               fetch.result = [kind |-> "TooManyFetchBlocksRequested",
                               peer |-> fetch.request.peer]
        /\ Len(fetch.request.block_refs) = 200 =>
               /\ fetch.result.kind # "TooManyFetchBlocksRequested"
               /\ ValidRequest =>
                      /\ fetch.result.kind = "Ok"
                      /\ Requested \cap dag_state \subseteq SeqToSet(fetch.result.blocks)

\* A request of 200 refs of a stored block was served.
FetchLimitWitness ==
    /\ FetchDone
    /\ Len(fetch.request.block_refs) = 200
    /\ fetch.result.kind = "Ok"
    /\ Len(fetch.result.blocks) >= 200

\* C19: a request of at most 200 refs with a ref of round 0 or of an author outside
\* the committee is rejected as a whole, with an error that carries no block.
FetchRejectsInvalidRef ==
    (/\ FetchDone
     /\ Len(fetch.request.block_refs) <= 200
     /\ \E b \in Requested : ~is_valid_index(author(b)) \/ round(b) = 0) =>
        /\ fetch.result.kind \in {"InvalidAuthorityIndex", "UnexpectedGenesisBlockRequested"}
        /\ "blocks" \notin DOMAIN fetch.result

\* A request of a stored block followed by a genesis ref was rejected.
FetchRejectsInvalidRefWitness ==
    /\ FetchDone
    /\ Len(fetch.request.block_refs) = 2
    /\ fetch.request.block_refs[1] \in dag_state \cap Blocks
    /\ round(fetch.request.block_refs[2]) = 0
    /\ fetch.result.kind = "UnexpectedGenesisBlockRequested"

\* The direct ancestors of the requested blocks found that the peer does not have.
QualifyingAncestors ==
    {a \in UNION {ancestors[b] : b \in Requested \cap dag_state} :
        round(a) > fetch.request.highest_accepted_rounds[author(a)]}

\* C20: a valid request of at most 200 refs returns exactly the requested blocks that
\* are in DagState and the qualifying ancestors of these, and no genesis block.
FetchReturnsRequestedAndAncestors ==
    (FetchDone /\ ValidRequest /\ Len(fetch.request.block_refs) <= 200) =>
        /\ fetch.result.kind = "Ok"
        /\ SeqToSet(fetch.result.blocks) = (Requested \cap dag_state) \cup QualifyingAncestors
        /\ \A b \in SeqToSet(fetch.result.blocks) : round(b) # 0

\* A request of a stored and an absent block returned the stored one with one of its
\* ancestors, while it has another ancestor that the peer has.
FetchReturnsRequestedAndAncestorsWitness ==
    /\ FetchDone
    /\ ValidRequest
    /\ Requested \ dag_state # {}
    /\ Requested \cap dag_state # {}
    /\ QualifyingAncestors # {}
    /\ \E b \in Requested \cap dag_state : (ancestors[b] \cap Blocks) \ QualifyingAncestors # {}
    /\ fetch.result.kind = "Ok"

\* The valid block b of its author with timestamp t.
Signed(b, t) == [kind |-> "block", block |-> b, timestamp_ms |-> t, verify_ok |-> TRUE]

\* The blocks a peer sends that it has not produced.
ForeignMessages(peer) == {m \in Messages \ {Malformed} : author(m.block) # peer}

\* C15: handle_send_block returns UnexpectedAuthority for a block whose author is
\* not the sending peer and hands nothing to Core, at once or after a sleep.
RejectsForeignBlock ==
    [][/\ \A peer \in Authorities : \A m \in ForeignMessages(peer) :
              HandleSendBlock(peer, m) =>
                  /\ send_ret' = [kind |-> "UnexpectedAuthority",
                                  author |-> author(m.block), peer |-> peer]
                  /\ UNCHANGED <<bm_vars, tasks>>
       /\ \A i \in 1..Len(tasks') :
              author(tasks'[i].verified_block.block) = tasks'[i].peer
      ]_vars

\* A peer was refused a block of another author after Core had received blocks,
\* none of them of that author.
RejectsForeignBlockWitness ==
    /\ send_ret.kind = "UnexpectedAuthority"
    /\ send_ret.author # send_ret.peer
    /\ submitted # {}
    /\ \A b \in submitted : author(b) # send_ret.author

\* C16: a block with timestamp now + max_forward_time_drift is not rejected: the
\* handler sleeps max_forward_time_drift and hands it to Core when it wakes, not
\* before; a block with timestamp now + max_forward_time_drift + 1 is rejected with
\* BlockTooFarInFuture and nothing is handed to Core.
DriftBoundary ==
    [][/\ \A b \in SendBlocks :
              /\ HandleSendBlock(author(b), Signed(b, now + max_forward_time_drift)) =>
                     /\ tasks' = Append(tasks,
                                    [peer |-> author(b),
                                     verified_block |-> Signed(b, now + max_forward_time_drift),
                                     forward_time_drift |-> max_forward_time_drift,
                                     deadline |-> now + max_forward_time_drift])
                     /\ UNCHANGED <<bm_vars, send_ret>>
              /\ HandleSendBlock(author(b), Signed(b, now + max_forward_time_drift + 1)) =>
                     /\ send_ret' = [kind |-> "BlockTooFarInFuture",
                                     block_timestamp |-> now + max_forward_time_drift + 1,
                                     forward_time_drift |-> max_forward_time_drift + 1]
                     /\ UNCHANGED <<bm_vars, tasks>>
       /\ \A i \in 1..Len(tasks) :
              (SendBlockWake(i) /\ tasks[i].forward_time_drift = max_forward_time_drift) =>
                  /\ now >= tasks[i].verified_block.timestamp_ms
                  /\ send_ret'.handed
                  /\ send_ret'.waited = max_forward_time_drift
                  /\ submitted' = submitted \cup {tasks[i].verified_block.block}
      ]_vars

\* A block has been handed to Core after a sleep of max_forward_time_drift.
DriftBoundaryWitness ==
    /\ send_ret.kind = "Ok"
    /\ send_ret.handed
    /\ send_ret.waited = max_forward_time_drift
    /\ submitted # {}

\* C17: a block with a timestamp ahead of the clock by at most
\* max_forward_time_drift is not handed to Core by the step that receives it: its
\* handler sleeps, with the timestamp as deadline. The step that ends a sleep is
\* not taken before the clock has reached the timestamp, and it hands to Core the
\* block that was received.
SleepsUntilTimestamp ==
    [][/\ \A b \in SendBlocks : \A t \in (now + 1)..(now + max_forward_time_drift) :
              HandleSendBlock(author(b), Signed(b, t)) =>
                  /\ Len(tasks') = Len(tasks) + 1
                  /\ tasks'[Len(tasks')].verified_block = Signed(b, t)
                  /\ UNCHANGED <<bm_vars, send_ret>>
       /\ \A i \in 1..Len(tasks') :
              tasks'[i].deadline = tasks'[i].verified_block.timestamp_ms
       /\ \A i \in 1..Len(tasks) :
              SendBlockWake(i) =>
                  /\ now >= tasks[i].verified_block.timestamp_ms
                  /\ send_ret'.handed
                  /\ send_ret'.waited = tasks[i].forward_time_drift
                  /\ submitted' = submitted \cup {tasks[i].verified_block.block}
      ]_vars

\* A block was handed to Core after a sleep shorter than max_forward_time_drift.
SleepsUntilTimestampWitness ==
    /\ send_ret.kind = "Ok"
    /\ send_ret.handed
    /\ send_ret.waited > 0
    /\ send_ret.waited < max_forward_time_drift
    /\ now > send_ret.waited

\* C26: a verifier failure is terminal: a block on which check_ancestors failed in
\* a call is not passed to check_ancestors again by the call that follows, whatever
\* its input, the same block included.
VerifierFailureTerminal ==
    [][Alive' => \A b \in FailedInCall : b \notin SeqToSet(ret'.checked)]_vars

\* C27: after every call, missing_blocks is the set of the keys of missing_ancestors
\* that are not keys of suspended_blocks.
MissingAreUnsuspendedKeys ==
    Alive => missing_blocks = (DOMAIN missing_ancestors) \ Suspended

\* Two blocks wait, one of them for the other, and another awaited block is missing.
MissingAreUnsuspendedKeysWitness ==
    /\ Alive
    /\ missing_blocks # {}
    /\ (DOMAIN missing_ancestors) \cap Suspended # {}
    /\ ret.accepted # <<>>

\* The batches of blocks that are in DagState or suspended.
KnownBatches ==
    UNION { [1..n -> (dag_state \cap Blocks) \cup Suspended] : n \in 1..MaxBatch }

\* C28: a call with only blocks that are already in DagState or already suspended
\* returns empty `accepted` and `newly_missing` and leaves DagState,
\* suspended_blocks, missing_ancestors and missing_blocks as they are; checked on
\* the call as made in every state the manager reaches.
KnownBlocksSkipped ==
    Alive =>
        \A input \in KnownBatches :
            LET end == RunCall(Manager, dag_state, input)
            IN  /\ end.panic = NoPanic
                /\ end.accepted_blocks = <<>>
                /\ NewlyMissing(end.bm.missing_blocks, missing_blocks) = {}
                /\ end.dag = dag_state
                /\ end.bm = Manager

\* Of the two blocks received one is in DagState and one is suspended, and the
\* last call, which accepted nothing and reported nothing, had only them to name.
KnownBlocksSkippedWitness ==
    /\ Alive
    /\ Cardinality(submitted) = 2
    /\ submitted \cap dag_state # {}
    /\ submitted \cap Suspended # {}
    /\ ret.accepted = <<>>
    /\ ret.newly_missing = {}

\* The messages the handler is to refuse: bytes that are no block, a block of
\* another author, a block the verifier fails, a timestamp too far ahead.
RefusedMessage(peer, m) ==
    \/ m = Malformed
    \/ author(m.block) # peer
    \/ ~m.verify_ok
    \/ m.timestamp_ms > now + max_forward_time_drift

Rejections == {"MalformedBlock", "UnexpectedAuthority", "InvalidBlock", "BlockTooFarInFuture"}

\* C29: every message that is to be refused is answered with a rejection by the
\* checks of handle_send_block, and a step in which the handler returns a
\* rejection leaves Core, BlockManager and DagState as they were, puts no handler
\* to sleep and calls neither add_blocks nor the synchronizer.
RejectionHasNoEffect ==
    /\ [](\A peer \in Authorities : \A m \in Messages :
              RefusedMessage(peer, m) => CheckSendBlock(peer, m, now).kind \in Rejections)
    /\ [][(send_ret' # send_ret /\ send_ret'.kind \in Rejections) =>
              /\ (DOMAIN send_ret') \cap {"handed", "fetch_blocks"} = {}
              /\ UNCHANGED <<bm_vars, tasks>>]_vars

\* A block that fails the verification was refused while Core holds accepted and
\* suspended blocks and a handler sleeps.
RejectionHasNoEffectWitness ==
    /\ send_ret.kind = "InvalidBlock"
    /\ dag_state \cap Blocks # {}
    /\ Suspended # {}
    /\ tasks # <<>>

\* What the handler has done when it returns Ok for the block `b` of `peer`:
\* add_blocks was called with b, and the synchronizer was called once, for the
\* refs add_blocks returned and this peer, or not at all when it returned none.
FetchScheduledFor(peer, b) ==
    /\ send_ret'.kind = "Ok"
    /\ send_ret'.handed
    /\ b \in submitted'
    /\ send_ret'.fetch_blocks =
           IF ret'.newly_missing = {} THEN {}
           ELSE {[missing_ancestors |-> ret'.newly_missing, peer |-> peer]}

\* C30: the handler calls the synchronizer after add_blocks has returned, for
\* exactly the missing ancestors returned and the sending peer, if and only if
\* there are some; while it sleeps, before add_blocks, it has called nothing.
FetchAfterAddBlocks ==
    [][/\ \A b \in SendBlocks :
              (/\ now' = now
               /\ tasks' = tasks
               /\ Alive'
               /\ b \in submitted'
               /\ HandleSendBlock(author(b), Signed(b, now))) =>
                  FetchScheduledFor(author(b), b)
       /\ \A b \in SendBlocks : \A t \in (now + 1)..(now + max_forward_time_drift) :
              HandleSendBlock(author(b), Signed(b, t)) => UNCHANGED <<bm_vars, send_ret>>
       /\ \A i \in 1..Len(tasks) :
              (Len(tasks') < Len(tasks) /\ Alive' /\ SendBlockWake(i)) =>
                  FetchScheduledFor(tasks[i].peer, tasks[i].verified_block.block)
      ]_vars

\* A handler that had slept was returned missing ancestors by add_blocks and
\* called the synchronizer for them.
FetchAfterAddBlocksWitness ==
    /\ send_ret.kind = "Ok"
    /\ send_ret.waited > 0
    /\ ret.newly_missing # {}
    /\ \E f \in send_ret.fetch_blocks :
           f.missing_ancestors = ret.newly_missing /\ f.missing_ancestors \subseteq missing_blocks

\* C25: TrafficController.tally never blocks its caller: it can be called in every
\* state, with the channel full as well, and then the tally is dropped: the
\* channel, the blocklists and the state of the policy are as before the call.
TallyNeverBlocks ==
    /\ [](\A tally \in Tallies : ENABLED Tally(tally))
    /\ [][\A tally \in Tallies :
              (Len(tally_channel) >= channel_capacity /\ Tally(tally)) =>
                  /\ tally_ret' = [kind |-> "Full", tally |-> tally]
                  /\ UNCHANGED <<tally_channel, blocklists, spam_policy>>]_vars

\* A tally was dropped on a full channel while an address is on the blocklist and
\* the policy has counted tallies.
TallyNeverBlocksWitness ==
    /\ tally_ret.kind = "Full"
    /\ Len(tally_channel) = channel_capacity
    /\ DOMAIN blocklists.connection_ips # {}
    /\ tally_ret.tally.connection_ip \notin DOMAIN blocklists.connection_ips

\* The blocks the commit consumer has received, as (sub-DAG, position) pairs.
Delivered ==
    {<<i, k>> : i \in 1..Len(commit_consumer), k \in 1..MaxRound * NumAuthorities} \cap
    {p \in (1..Len(commit_consumer)) \X (1..MaxRound * NumAuthorities) :
        p[2] <= Len(commit_consumer[p[1]].blocks)}

DeliveredBlock(p) == commit_consumer[p[1]].blocks[p[2]]

\* C21: the commit consumer of the authority never receives a block in two
\* committed sub-DAGs (nor twice in one), so never a transaction twice, and every
\* transaction it receives was submitted.
NoBlockCommittedTwice ==
    /\ \A p, q \in Delivered :
           p # q => /\ DeliveredBlock(p) # DeliveredBlock(q)
                    /\ block_txs[DeliveredBlock(p)] \cap block_txs[DeliveredBlock(q)] = {}
    /\ \A p \in Delivered : block_txs[DeliveredBlock(p)] \subseteq tx_submitted

\* Two sub-DAGs were received, the second with a leader whose causal closure
\* holds blocks of the first, and both carry transactions.
NoBlockCommittedTwiceWitness ==
    /\ Len(commit_consumer) = 2
    /\ \A i \in 1..2 : \E k \in 1..Len(commit_consumer[i].blocks) :
           block_txs[commit_consumer[i].blocks[k]] # {}
    /\ SeqToSet(commit_consumer[1].blocks) \subseteq Ancestry(commit_consumer[2].leader)

\* C23: the commit indices the consumer receives are last_processed_index + 1,
\* + 2, ... in this order: dense and strictly increasing.
DenseCommitIndices ==
    \A i \in 1..Len(commit_consumer) : commit_consumer[i].index = last_processed_index + i

\* Two sub-DAGs were received, the leader of a round between being skipped or not.
DenseCommitIndicesWitness ==
    /\ Len(commit_consumer) = 2
    /\ commit_consumer[2].index = last_processed_index + 2
    /\ round(commit_consumer[1].leader) < round(commit_consumer[2].leader)

\* C35: no panic of BlockManager is reachable: whatever the calls made and the
\* outcomes of check_ancestors, neither 'Unsuspended block has a missing ancestor'
\* nor a panic of try_unsuspend_block ends the program.
NoInternalPanic == panic = NoPanic

\* The panics of try_unsuspend_block are not reachable.
UnsuspendNeverPanics ==
    panic \notin {"Block should be in suspended map",
                  "Block reference should be present in missing dependencies"}

\* C36: after every call the two suspension indexes mirror each other: c is in
\* missing_ancestors[m] exactly when c is suspended with m in its missing set.
IndexesMirror ==
    Alive => \A m \in Refs, c \in Refs :
                 (m \in DOMAIN missing_ancestors /\ c \in missing_ancestors[m])
                     <=> (c \in Suspended /\ m \in suspended_blocks[c])

\* A call accepted a block and removed it from the sets of the blocks that waited
\* for it; one of them still waits for another block, with others suspended.
IndexesMirrorWitness ==
    /\ Alive
    /\ ret.accepted # <<>>
    /\ \E c \in Suspended : ancestors[c] \cap SeqToSet(ret.accepted) # {}
    /\ Cardinality(DOMAIN missing_ancestors) >= 2

\* C37: after every call no ref stored in DagState is a key of suspended_blocks or
\* a member of missing_blocks.
AcceptedInOnePlace ==
    Alive => /\ dag_state \cap Suspended = {}
             /\ dag_state \cap missing_blocks = {}

\* A call accepted a block that had been reported missing, with a block that was
\* suspended for it, while other blocks stay suspended and missing.
AcceptedInOnePlaceWitness ==
    /\ Alive
    /\ Len(ret.accepted) >= 2
    /\ SeqToSet(ret.accepted) \cap reported # {}
    /\ Suspended # {}
    /\ missing_blocks # {}

\* C33: the response of handle_fetch_blocks holds every block at most once, also
\* when a block is requested and is a qualifying ancestor of a requested block, or
\* when the request repeats a ref.
FetchResponseIsUnion ==
    (FetchDone /\ fetch.result.kind = "Ok") =>
        \A i, j \in 1..Len(fetch.result.blocks) :
            i # j => fetch.result.blocks[i] # fetch.result.blocks[j]

\* C38: handle_fetch_blocks ends with Ok or a ConsensusError for every request,
\* also one whose highest_accepted_rounds has fewer entries than the committee:
\* the lookup highest_accepted_rounds[author] does not panic.
FetchNeverPanics == FetchDone => fetch.result.kind # "panic"

\* C31: once Core.add_blocks has succeeded, handle_send_block returns Ok whether
\* synchronizer.fetch_blocks was not called, succeeded or failed.
SynchronizerFailureNotSurfaced ==
    ("fetched" \in DOMAIN send_ret) => send_ret.kind = "Ok"

\* A block with missing ancestors was handed to Core, the synchronizer was asked
\* to fetch them and failed, and the handler returned Ok.
SynchronizerFailureNotSurfacedWitness ==
    /\ "fetched" \in DOMAIN send_ret
    /\ send_ret.fetched = "Err"
    /\ send_ret.fetch_blocks # {}
    /\ send_ret.kind = "Ok"
    /\ Suspended # {}

CoreStopped == "core_thread_handle" \notin node.running

\* C32: a handler that calls add_blocks when the Core thread is stopped, as one
\* that slept while stop() went on, returns ConsensusError::Shutdown; it is never
\* blocked, it hands nothing to Core and does not call the synchronizer.
ShutdownWhenCoreStopped ==
    /\ [](\A i \in 1..Len(tasks) :
              (CoreStopped /\ tasks[i].deadline <= now) => ENABLED SendBlockWake(i))
    /\ [][\A i \in 1..Len(tasks) :
              (CoreStopped /\ Len(tasks') < Len(tasks) /\ SendBlockWake(i)) =>
                  /\ send_ret' = [kind |-> "Shutdown", handed |-> FALSE,
                                  waited |-> tasks[i].forward_time_drift]
                  /\ UNCHANGED bm_vars]_vars

\* A handler slept while the Core thread was stopped and returned Shutdown, after
\* blocks had been accepted and with stop() still going on.
ShutdownWhenCoreStoppedWitness ==
    /\ send_ret.kind = "Shutdown"
    /\ ~send_ret.handed
    /\ send_ret.waited > 0
    /\ CoreStopped
    /\ node.pc = "stopping"
    /\ dag_state \cap Blocks # {}

RemovesOnlyExpired ==
    [][\A list \in {"connection_ips", "proxy_ips"} :
           \A ip \in DOMAIN blocklists[list] :
               ip \notin DOMAIN blocklists'[list] => now >= blocklists[list][ip]]_vars

====
